---- MODULE Spec2Model ----
(***************************************************************************)
(* GameGeneratorApp (src/main.py): a form with four input fields, an       *)
(* editable code display, a "generate" trigger that posts a composed       *)
(* prompt to the completions endpoint, and a "run" trigger that executes   *)
(* the text of the code display and mounts the widget it defines.          *)
(*                                                                         *)
(* Input fields are sequences of characters, so that str.strip() is        *)
(* computed.  The code display holds a text as a sequence of segments: one *)
(* segment per string literal or interpolated value, so that what a        *)
(* message carries can be read off it.                                     *)
(***************************************************************************)
EXTENDS Integers, Sequences, FiniteSets, TLC

\* ---- bounds -------------------------------------------------------------
MaxPrefixLen == 1     \* longest prefix the user types
MaxSuffixLen == 1     \* longest suffix the user types
MaxPromptLen == 2     \* longest game prompt the user types
MaxKeyLen == 1        \* longest API key the user types
MaxRequests == 2      \* completion requests issued in one session

\* ---- characters and str.strip() -----------------------------------------
Whitespace == {" ", "\n", "\t"}
Chars == {" ", "a"}

IsSpace(c) == c \in Whitespace

StringsUpTo(n) == UNION {[1..k -> Chars] : k \in 0..n}

RECURSIVE lstrip(_)
lstrip(s) ==
    IF s = <<>> THEN s
    ELSE IF IsSpace(Head(s)) THEN lstrip(Tail(s)) ELSE s

RECURSIVE rstrip(_)
rstrip(s) ==
    IF s = <<>> THEN s
    ELSE IF IsSpace(s[Len(s)]) THEN rstrip(SubSeq(s, 1, Len(s) - 1)) ELSE s

\* str.strip() with no argument
strip(s) == rstrip(lstrip(s))

\* a plausible slip: the f-string result is not stripped again
format_prompt_unstripped(prefix, prompt, suffix) ==
    prefix \o <<" ">> \o prompt \o <<" ">> \o suffix

\* f"{prefix} {prompt} {suffix}".strip()
format_prompt(prefix, prompt, suffix) ==
    strip(prefix \o <<" ">> \o prompt \o <<" ">> \o suffix)

\* ---- texts of the code display ------------------------------------------
EmptyText == <<>>

ErrNoApiKey == <<"Error: Please provide an API key">>
ErrNoPrompt == <<"Error: Please enter a prompt">>
ErrParse == <<"Error: Unable to parse API response">>
ErrRequestFailed == <<"Error: API request failed\n\nreq: {req}\n\nresult: {result}">>
ErrNoCode == <<"Error: No valid code to run">>
ErrNoEntryPoint == <<"Error: Generated code does not define GeneratedGameWidget">>

\* f'Error: {str(error)}'
ErrTransport(error) == <<"Error: ", error>>

\* a plausible slip: the message is shown without its literal part
ErrRunning_bare(msg) == <<msg>>

\* f'Error running code: {str(e)}'
ErrRunning(msg) == <<"Error running code: ", msg>>

Contains(text, segment) == \E i \in 1..Len(text) : text[i] = segment

\* the demo game the code display holds after build()
asteroids_code == <<"asteroids_code">>

\* texts a user types into the code display or the model returns
SrcWidget == <<"from kivy.uix.widget import Widget as GeneratedGameWidget">>
SrcNoEntry == <<"x = 1">>
SrcRaises == <<"1/0">>
SrcExits == <<"raise SystemExit">>
SrcNotWidget == <<"GeneratedGameWidget = dict">>
SrcCtorRaises == <<"def GeneratedGameWidget(): raise ValueError('boom')">>
SrcCtorExits == <<"from sys import exit as GeneratedGameWidget">>

CodeTexts ==
    {EmptyText, asteroids_code, SrcWidget, SrcNoEntry, SrcRaises, SrcExits,
     SrcNotWidget, SrcCtorRaises, SrcCtorExits}

\* ---- widgets ------------------------------------------------------------
FormWidgets ==
    <<"api_key_input", "prefix_input", "suffix_input", "prompt_input",
      "generate_btn", "code_display", "run_btn">>

Mounted(w, children) == \E i \in 1..Len(children) : children[i] = w

\* ---- state --------------------------------------------------------------
VARIABLES
    api_key_input,    \* text of the API key field
    prefix_input,     \* text of the prefix field
    suffix_input,     \* text of the suffix field
    prompt_input,     \* text of the game prompt field
    code_display,     \* text of the code display (the output slot)
    layout,           \* children of the root BoxLayout, in order
    pending,          \* ids of the UrlRequests awaiting a response
    issued,           \* number of UrlRequests created so far
    propagated,       \* exception that left a handler, or "none"
    last              \* the handler that ran last and what it did

vars ==
    <<api_key_input, prefix_input, suffix_input, prompt_input, code_display,
      layout, pending, issued, propagated, last>>

NoStep ==
    [op |-> "build", outcome |-> "none", id |-> 0, prompt |-> <<>>,
     key |-> <<>>, executed |-> <<>>, status |-> "", body |-> "", result |-> 0,
     writes |-> 0, evaluated |-> FALSE]

\* writes: how many times the handler assigned code_display.text
Step(op, outcome, writes) ==
    [NoStep EXCEPT !.op = op, !.outcome = outcome, !.writes = writes]

\* the default texts of build(): the prefix ends in whitespace, the suffix
\* starts with it
DefaultPrefix == <<"a", " ">>
DefaultSuffix == <<" ", "a">>

Init ==
    /\ api_key_input = <<>>
    /\ prefix_input = DefaultPrefix
    /\ suffix_input = DefaultSuffix
    /\ prompt_input = <<>>
    /\ code_display = asteroids_code
    /\ layout = FormWidgets
    /\ pending = {}
    /\ issued = 0
    /\ propagated = "none"
    /\ last = NoStep

\* an exception that reaches the Kivy event loop stops the application
Running == propagated = "none"

\* ---- user edits ---------------------------------------------------------
EditApiKey ==
    /\ Running
    /\ Mounted("api_key_input", layout)
    /\ \E v \in StringsUpTo(MaxKeyLen) :
        /\ v # api_key_input
        /\ api_key_input' = v
    /\ last' = Step("edit", "none", 0)
    /\ UNCHANGED <<prefix_input, suffix_input, prompt_input, code_display,
                   layout, pending, issued, propagated>>

EditPrefix ==
    /\ Running
    /\ Mounted("prefix_input", layout)
    /\ \E v \in StringsUpTo(MaxPrefixLen) \cup {DefaultPrefix} :
        /\ v # prefix_input
        /\ prefix_input' = v
    /\ last' = Step("edit", "none", 0)
    /\ UNCHANGED <<api_key_input, suffix_input, prompt_input, code_display,
                   layout, pending, issued, propagated>>

EditSuffix ==
    /\ Running
    /\ Mounted("suffix_input", layout)
    /\ \E v \in StringsUpTo(MaxSuffixLen) \cup {DefaultSuffix} :
        /\ v # suffix_input
        /\ suffix_input' = v
    /\ last' = Step("edit", "none", 0)
    /\ UNCHANGED <<api_key_input, prefix_input, prompt_input, code_display,
                   layout, pending, issued, propagated>>

EditPrompt ==
    /\ Running
    /\ Mounted("prompt_input", layout)
    /\ \E v \in StringsUpTo(MaxPromptLen) :
        /\ v # prompt_input
        /\ prompt_input' = v
    /\ last' = Step("edit", "none", 0)
    /\ UNCHANGED <<api_key_input, prefix_input, suffix_input, code_display,
                   layout, pending, issued, propagated>>

EditCode ==
    /\ Running
    /\ Mounted("code_display", layout)
    /\ \E t \in CodeTexts :
        /\ t # code_display
        /\ code_display' = t
    /\ last' = Step("edit", "none", 0)
    /\ UNCHANGED <<api_key_input, prefix_input, suffix_input, prompt_input,
                   layout, pending, issued, propagated>>

\* ---- generate_code and call_grok_api ------------------------------------
\* a plausible slip: the key is tested before it is stripped
api_key_unstripped(text) == text

\* api_key = self.api_key_input.text.strip()
api_key_of(text) == strip(text)

\* a plausible slip: the prompt is tested before it is stripped
prompt_unstripped(text) == text

\* prompt = self.prompt_input.text.strip()
prompt_of(text) == strip(text)

\* UrlRequest(api_url, ..., req_body=data, req_headers=headers, method='POST')
call_grok_api(full_prompt, api_key) ==
    /\ issued' = issued + 1
    /\ pending' = pending \cup {issued + 1}
    /\ last' = [Step("generate_code", "sent", 0) EXCEPT
                    !.id = issued + 1, !.prompt = full_prompt, !.key = api_key]
    /\ UNCHANGED code_display

GenerateCode ==
    /\ Running
    /\ Mounted("generate_btn", layout)
    /\ issued < MaxRequests
    /\ LET api_key == api_key_of(api_key_input)
           prompt == prompt_of(prompt_input)
           prefix == strip(prefix_input)
           suffix == strip(suffix_input)
       IN  IF api_key = <<>>
           THEN /\ code_display' = ErrNoApiKey
                /\ last' = Step("generate_code", "no_api_key", 1)
                /\ UNCHANGED <<pending, issued>>
           ELSE IF prompt = <<>>
           THEN /\ code_display' = ErrNoPrompt
                /\ last' = Step("generate_code", "no_prompt", 1)
                /\ UNCHANGED <<pending, issued>>
           ELSE call_grok_api(format_prompt(prefix, prompt, suffix), api_key)
    /\ UNCHANGED <<api_key_input, prefix_input, suffix_input, prompt_input,
                   layout, propagated>>

\* ---- the response of the completions endpoint ---------------------------
\* JSON values as UrlRequest hands them to on_success: the decoded body, or
\* the body itself as a string when it does not decode
JNull == [t |-> "null"]
JStr(text) == [t |-> "str", v |-> text]
JArr(seq) == [t |-> "arr", v |-> seq]
JObj(fields) == [t |-> "obj", v |-> fields]

Raise(exc) == [ok |-> FALSE, exc |-> exc]
Value(v) == [ok |-> TRUE, v |-> v]

\* value[name] for a string key
GetItemStr(value, name) ==
    IF value.t = "obj"
    THEN IF name \in DOMAIN value.v THEN Value(value.v[name]) ELSE Raise("KeyError")
    ELSE Raise("TypeError")

\* value[i] for an integer key, counted from zero
GetItemInt(value, i) ==
    IF value.t = "obj" THEN Raise("KeyError")
    ELSE IF value.t = "arr"
    THEN IF i + 1 \in 1..Len(value.v) THEN Value(value.v[i + 1]) ELSE Raise("IndexError")
    ELSE IF value.t = "str"
    THEN IF value.v # <<>> THEN Value(JStr(<<"c">>)) ELSE Raise("IndexError")
    ELSE Raise("TypeError")

\* result['choices'][0]['message']['content']
content_of(result) ==
    LET choices == GetItemStr(result, "choices")
    IN  IF ~choices.ok THEN choices
        ELSE LET first == GetItemInt(choices.v, 0)
             IN  IF ~first.ok THEN first
                 ELSE LET message == GetItemStr(first.v, "message")
                      IN  IF ~message.ok THEN message
                          ELSE GetItemStr(message.v, "content")

Completion(text) ==
    JObj([choices |-> JArr(<<JObj([message |-> JObj([content |-> JStr(text)])])>>)])

\* bodies of 2xx responses
Results ==
    <<Completion(SrcWidget),
      Completion(SrcNoEntry),
      Completion(EmptyText),
      JObj([choices |-> JArr(<<JObj([message |-> JObj([content |-> JNull])])>>)]),
      JObj(<<>>),
      JObj([choices |-> JArr(<<>>)]),
      JObj([choices |-> JArr(<<JObj([message |-> JObj(<<>>)])>>)]),
      JObj([choices |-> JArr(<<JObj([message |-> JStr(<<"hi">>)])>>)]),
      JObj([choices |-> JObj(<<>>)]),
      JArr(<<>>),
      JNull,
      JStr(<<"<html>">>)>>

\* status and body of 4xx and 5xx responses
FailureStatuses == {"401", "500"}
FailureBodies == {"{\"error\":\"denied\"}"}

\* str(error) of transport errors
TransportErrors == {"timed out"}

\* the exceptions on_success handles
ParseExceptions == {"KeyError", "IndexError", "TypeError"}

\* TextInput.text accepts a string only; what it raises otherwise depends on
\* the Kivy release
TextSetterErrors == {"AttributeError", "ValueError"}

on_success(id, r, result, setter_error) ==
    LET content == content_of(result)
    IN  IF content.ok
        THEN IF content.v.t = "str"
             THEN /\ code_display' = content.v.v
                  /\ propagated' = "none"
                  /\ last' = [Step("on_success", "content", 1) EXCEPT !.id = id, !.result = r]
             ELSE IF setter_error \in ParseExceptions
                  THEN /\ code_display' = ErrParse
                       /\ propagated' = "none"
                       /\ last' = [Step("on_success", "parse_error", 1) EXCEPT !.id = id, !.result = r]
                  ELSE /\ propagated' = setter_error
                       /\ last' = [Step("on_success", "raised", 0) EXCEPT !.id = id, !.result = r]
                       /\ UNCHANGED code_display
        ELSE IF content.exc \in ParseExceptions
             THEN /\ code_display' = ErrParse
                  /\ propagated' = "none"
                  /\ last' = [Step("on_success", "parse_error", 1) EXCEPT !.id = id, !.result = r]
             ELSE /\ propagated' = content.exc
                  /\ last' = [Step("on_success", "raised", 0) EXCEPT !.id = id, !.result = r]
                  /\ UNCHANGED code_display

OnSuccess ==
    /\ Running
    /\ \E id \in pending, r \in 1..Len(Results), e \in TextSetterErrors :
        /\ pending' = pending \ {id}
        /\ on_success(id, r, Results[r], e)
    /\ UNCHANGED <<api_key_input, prefix_input, suffix_input, prompt_input,
                   layout, issued>>

on_failure(id, status, body) ==
    /\ code_display' = ErrRequestFailed
    /\ last' = [Step("on_failure", "failed", 1) EXCEPT
                    !.id = id, !.status = status, !.body = body]

OnFailure ==
    /\ Running
    /\ \E id \in pending, status \in FailureStatuses, body \in FailureBodies :
        /\ pending' = pending \ {id}
        /\ on_failure(id, status, body)
    /\ UNCHANGED <<api_key_input, prefix_input, suffix_input, prompt_input,
                   layout, issued, propagated>>

on_error(id, error) ==
    /\ code_display' = ErrTransport(error)
    /\ last' = [Step("on_error", "error", 1) EXCEPT !.id = id, !.body = error]

OnError ==
    /\ Running
    /\ \E id \in pending, error \in TransportErrors :
        /\ pending' = pending \ {id}
        /\ on_error(id, error)
    /\ UNCHANGED <<api_key_input, prefix_input, suffix_input, prompt_input,
                   layout, issued, propagated>>

\* ---- run_game -----------------------------------------------------------
ErrorLiterals ==
    {"Error: Please provide an API key", "Error: Please enter a prompt",
     "Error: Unable to parse API response",
     "Error: API request failed\n\nreq: {req}\n\nresult: {result}",
     "Error: No valid code to run",
     "Error: Generated code does not define GeneratedGameWidget",
     "Error: ", "Error running code: "}

IsErrorText(text) == text # <<>> /\ text[1] \in ErrorLiterals

Module(raises, msg, entry, ctorRaises, ctorMsg) ==
    [raises |-> raises, msg |-> msg, entry |-> entry,
     ctorRaises |-> ctorRaises, ctorMsg |-> ctorMsg]

\* exec(generated_code, namespace) followed by namespace['GeneratedGameWidget']():
\* the exception the text raises, whether it binds the entry point, and what
\* calling the entry point raises or returns
exec_of(text) ==
    CASE text \in {asteroids_code, SrcWidget} ->
            Module("none", "", "Widget", "none", "")
      [] text \in {EmptyText, SrcNoEntry} ->
            Module("none", "", "absent", "none", "")
      [] text = SrcRaises ->
            Module("ZeroDivisionError", "division by zero", "absent", "none", "")
      [] text = SrcExits ->
            Module("SystemExit", "", "absent", "none", "")
      [] text = SrcNotWidget ->
            Module("none", "", "dict", "none", "")
      [] text = SrcCtorRaises ->
            Module("none", "", "function", "ValueError", "boom")
      [] text = SrcCtorExits ->
            Module("none", "", "function", "SystemExit", "")
      [] IsErrorText(text) ->
            Module("SyntaxError", "invalid syntax (<string>, line 1)", "absent", "none", "")

\* the classes "except Exception" handles; SystemExit, KeyboardInterrupt and
\* GeneratorExit derive from BaseException only
ExceptionClasses ==
    {"SyntaxError", "ZeroDivisionError", "ValueError", "AttributeError",
     "KeyError", "IndexError", "TypeError"}

\* except Exception as e
handles(exc) == exc \in ExceptionClasses

\* a run_game step that reached exec(generated_code, namespace)
Evaluated(text, outcome, writes) ==
    [Step("run_game", outcome, writes) EXCEPT !.executed = text, !.evaluated = TRUE]

\* the except clause of run_game, entered with the layout as the try block left it
run_game_except(exc, msg, text, children, outcome) ==
    /\ layout' = children
    /\ IF handles(exc)
       THEN /\ code_display' = ErrRunning(msg)
            /\ propagated' = "none"
            /\ last' = Evaluated(text, outcome, 1)
       ELSE /\ propagated' = exc
            /\ last' = Evaluated(text, "raised", 0)
            /\ UNCHANGED code_display

\* a plausible slip: the demo text set in build() is run, not the display
generated_code_stale(display) == asteroids_code

\* generated_code = self.code_display.text
generated_code_of(display) == display

\* a plausible slip: the emptiness test is missing
no_code_unchecked(text) == FALSE

\* if not generated_code
no_code(text) == text = EmptyText

\* a plausible slip: the entry point is looked up without the membership test
defines_entry_unchecked(namespace) == TRUE

\* 'GeneratedGameWidget' in namespace
defines_entry(namespace) == namespace.entry # "absent"

\* str(e) of what BoxLayout.add_widget raises for an object that is no Widget
NotWidgetMsg == "'dict' object has no attribute 'fbind'"

RunGame ==
    /\ Running
    /\ Mounted("run_btn", layout)
    /\ LET generated_code == generated_code_of(code_display)
       IN  IF no_code(generated_code)
           THEN /\ code_display' = ErrNoCode
                /\ last' = Step("run_game", "no_code", 1)
                /\ UNCHANGED <<layout, propagated>>
           ELSE LET namespace == exec_of(generated_code)
                IN  IF namespace.raises # "none"
                    THEN run_game_except(namespace.raises, namespace.msg,
                                         generated_code, layout, "exec_error")
                    ELSE IF ~defines_entry(namespace)
                    THEN /\ code_display' = ErrNoEntryPoint
                         /\ last' = Evaluated(generated_code, "no_entry_point", 1)
                         /\ UNCHANGED <<layout, propagated>>
                    ELSE IF namespace.ctorRaises # "none"
                    THEN run_game_except(namespace.ctorRaises, namespace.ctorMsg,
                                         generated_code, layout, "ctor_error")
                    ELSE IF namespace.entry = "Widget"
                    THEN \* clear_widgets(); add_widget(game_widget)
                         /\ layout' = <<"game_widget">>
                         /\ last' = Evaluated(generated_code, "mounted", 0)
                         /\ UNCHANGED <<code_display, propagated>>
                    ELSE \* clear_widgets(); add_widget raises
                         run_game_except("AttributeError", NotWidgetMsg,
                                         generated_code, <<>>, "mount_error")
    /\ UNCHANGED <<api_key_input, prefix_input, suffix_input, prompt_input,
                   pending, issued>>

Next ==
    \/ EditApiKey
    \/ EditPrefix
    \/ EditSuffix
    \/ EditPrompt
    \/ EditCode
    \/ GenerateCode
    \/ OnSuccess
    \/ OnFailure
    \/ OnError
    \/ RunGame

Spec == Init /\ [][Next]_vars

\* ---- properties ---------------------------------------------------------
IsBlank(s) == \A i \in 1..Len(s) : s[i] \in Whitespace

\* the text between the first and the last character that is no whitespace
Trimmed(s) ==
    IF IsBlank(s) THEN <<>>
    ELSE LET solid == {i \in 1..Len(s) : s[i] \notin Whitespace}
             lo == CHOOSE i \in solid : \A j \in solid : i <= j
             hi == CHOOSE i \in solid : \A j \in solid : j <= i
         IN  SubSeq(s, lo, hi)

SnakePrompt ==
    <<"B", "u", "i", "l", "d", " ", "a", " ", "s", "n", "a", "k", "e", " ",
      "g", "a", "m", "e">>

Callbacks == {"on_success", "on_failure", "on_error"}

FailedRuns ==
    {"no_code", "no_entry_point", "exec_error", "ctor_error", "mount_error"}

\* C1: whatever the evaluated text or its entry point raises, run_game
\* handles it: nothing propagates out of run_game, and the code display
\* then shows the "Error running code" message.
C1_RunGameHandlesEveryException ==
    (last.op = "run_game" /\ last.executed # EmptyText
        /\ (exec_of(last.executed).raises # "none"
            \/ exec_of(last.executed).ctorRaises # "none"))
    => (propagated = "none" /\ code_display # <<>>
        /\ code_display[1] = "Error running code: ")

\* C2: in every reachable state the layout shows exactly one view: the
\* whole authoring form or one game widget.
C2_ExactlyOneViewMounted ==
    layout = FormWidgets \/ layout = <<"game_widget">>

\* C3: after a run that failed and reported it (no text, no entry point, an
\* error while evaluating, instantiating or mounting) the application still
\* runs and the authoring form with its run button is still mounted.
C3_UsableAfterFailedRun ==
    (last.op = "run_game" /\ last.outcome \in FailedRuns)
    => (Running /\ layout = FormWidgets /\ Mounted("run_btn", layout))

\* C4: at most one completion request is outstanding at any time.
C4_AtMostOneOutstanding == Cardinality(pending) <= 1

\* C5: the callback that resolves a request takes it out of the outstanding
\* requests and assigns the code display exactly once.
C5_ResolvesOnceWritesOnce ==
    last.op \in Callbacks => (last.id \notin pending /\ last.writes = 1)

\* C6: after a 4xx or 5xx response the code display carries the status and
\* the body of the response.
C6_FailureCarriesStatusAndBody ==
    last.op = "on_failure"
    => (Contains(code_display, last.status) /\ Contains(code_display, last.body))

\* C7: after a 2xx response no exception leaves on_success; the code display
\* is the content at choices[0].message.content when the body has that
\* path, and the parse error message when it has not.
C7_SuccessCallbackTotal ==
    last.op = "on_success"
    => LET content == content_of(Results[last.result])
       IN  /\ propagated = "none"
           /\ IF content.ok
              THEN content.v.t = "str" /\ code_display = content.v.v
              ELSE code_display = ErrParse

\* C8: a generate press with a blank prompt issues no request whatever the
\* prefix and suffix are, and with a usable key it reports the missing
\* prompt; with a usable key and prompt the request is issued whatever the
\* prefix and suffix are, blank ones included.
C8_EmptyBodyRejected ==
    [][last'.op = "generate_code"
       => /\ IsBlank(prompt_input)
                => /\ pending' = pending /\ issued' = issued
                   /\ last'.outcome # "sent"
                   /\ ~IsBlank(api_key_input)
                        => (code_display' = ErrNoPrompt /\ last'.outcome = "no_prompt")
          /\ (~IsBlank(prompt_input) /\ ~IsBlank(api_key_input))
                => (last'.outcome = "sent" /\ pending' = pending \cup {issued'}
                    /\ issued' = issued + 1)]_vars

C8_BlankPromptRejected ==
    /\ last.op = "generate_code" /\ last.outcome = "no_prompt"
    /\ prompt_input # <<>>
    /\ prefix_input # <<>> /\ suffix_input # <<>>

\* C9: the prompt handed to the request is the trimmed prefix, prompt and
\* suffix joined by single spaces and trimmed again; for an empty prefix and
\* suffix and the prompt "Build a snake game" it is "Build a snake game".
C9_ComposedPrompt ==
    /\ (last.op = "generate_code" /\ last.outcome = "sent")
        => last.prompt = Trimmed(Trimmed(prefix_input) \o <<" ">>
                                 \o Trimmed(prompt_input) \o <<" ">>
                                 \o Trimmed(suffix_input))
    /\ format_prompt(strip(<<>>), prompt_of(SnakePrompt), strip(<<>>)) = SnakePrompt

C9_PromptWithBlankEdges ==
    /\ last.op = "generate_code" /\ last.outcome = "sent"
    /\ prefix_input = DefaultPrefix
    /\ prompt_input = <<" ", "a">>
    /\ suffix_input = <<>>

\* C10: a generate press with a blank API key writes the missing-key message
\* and issues no request; the key of every request issued is not blank.
C10_NoRequestWithoutKey ==
    [][last'.op = "generate_code"
       => /\ IsBlank(api_key_input)
                => /\ code_display' = ErrNoApiKey
                   /\ pending' = pending /\ issued' = issued
                   /\ last'.outcome = "no_api_key"
          /\ last'.outcome = "sent" => ~IsBlank(last'.key)]_vars

C10_BlankKeyRejected ==
    /\ last.op = "generate_code" /\ last.outcome = "no_api_key"
    /\ api_key_input # <<>>
    /\ ~IsBlank(prompt_input)

\* C11: a run pressed on an empty code display writes the no-code message,
\* does not reach exec, and leaves the layout as it was.
C11_EmptyArtifactRejected ==
    [][(last'.op = "run_game" /\ code_display = EmptyText)
       => /\ code_display' = ErrNoCode
          /\ last'.outcome = "no_code"
          /\ ~last'.evaluated
          /\ layout' = layout
          /\ propagated' = "none"]_vars

C11_EmptyRunReported ==
    /\ last.op = "run_game" /\ last.outcome = "no_code"
    /\ code_display = ErrNoCode
    /\ layout = FormWidgets

\* C12 as stated: for a text that evaluates without error, a run mounts the
\* instance of the entry point when the namespace defines it, and otherwise
\* writes the missing-entry-point message and leaves the layout as it was.
C12_EntryPointMountedOrMissing ==
    [][(last'.op = "run_game" /\ code_display # EmptyText
            /\ exec_of(code_display).raises = "none")
       => IF exec_of(code_display).entry # "absent"
          THEN layout' = <<"game_widget">>
          ELSE code_display' = ErrNoEntryPoint /\ layout' = layout]_vars

\* C12 as amended: for a text that evaluates without error, a run replaces
\* the form by the instance when the namespace defines the entry point and
\* calling it returns a Widget, and writes the missing-entry-point message,
\* leaving the layout as it was, when the namespace does not define it.
C12_WidgetMountedOrMissing ==
    [][(last'.op = "run_game" /\ code_display # EmptyText
            /\ exec_of(code_display).raises = "none")
       => LET namespace == exec_of(code_display)
          IN  /\ (namespace.entry = "Widget" /\ namespace.ctorRaises = "none")
                    => /\ layout' = <<"game_widget">>
                       /\ last'.outcome = "mounted"
                       /\ propagated' = "none"
              /\ namespace.entry = "absent"
                    => /\ code_display' = ErrNoEntryPoint
                       /\ last'.outcome = "no_entry_point"
                       /\ layout' = layout
                       /\ propagated' = "none"]_vars

C12_GameMounted ==
    /\ last.op = "run_game" /\ last.outcome = "mounted"
    /\ layout = <<"game_widget">>
    /\ last.executed = SrcWidget

\* C13: the text a run hands to exec is the text the code display holds
\* when the run button is pressed.
C13_RunsDisplayedText ==
    [][(last'.op = "run_game" /\ last'.evaluated)
       => last'.executed = code_display]_vars

C13_EditedTextRun ==
    /\ last.op = "run_game" /\ last.evaluated
    /\ last.executed = SrcNoEntry
    /\ issued > 0

\* C14: a run that ends in the missing-entry-point or the error-running
\* message replaces the text of the code display by that message, so a text
\* that was no such message is gone, and a run pressed right after it hands
\* the message itself to exec, which fails on it.
RunErrors == {"no_entry_point", "exec_error", "ctor_error", "mount_error"}

C14_ErrorReplacesArtifact ==
    [][(last'.op = "run_game" /\ last'.outcome \in RunErrors)
       => /\ IsErrorText(code_display')
          /\ code_display'[1] \in {ErrNoEntryPoint[1], "Error running code: "}
          /\ ~IsErrorText(code_display) => code_display' # code_display
          /\ (last.op = "run_game" /\ last.outcome \in RunErrors)
                => /\ last'.executed = code_display
                   /\ IsErrorText(last'.executed)
                   /\ last'.outcome = "exec_error"
                   /\ (~IsErrorText(last.executed)
                            => last'.executed # last.executed)]_vars

C14_ErrorMessageRun ==
    /\ last.op = "run_game" /\ last.outcome = "exec_error"
    /\ last.executed = ErrNoEntryPoint
    /\ code_display = ErrRunning("invalid syntax (<string>, line 1)")

\* C15: a callback that fires while two requests are outstanding, or right
\* after the callback of the other request, leaves the code display holding
\* the result of its own response, whichever request it belongs to and
\* whatever the display held before.
C15_LastResolutionWins ==
    [][(last'.op \in Callbacks
            /\ (Cardinality(pending) = 2
                \/ (last.op \in Callbacks /\ last.id # last'.id)))
       => CASE last'.op = "on_success" ->
                    LET content == content_of(Results[last'.result])
                    IN  IF content.ok
                        THEN content.v.t = "str" /\ code_display' = content.v.v
                        ELSE code_display' = ErrParse
            [] last'.op = "on_failure" -> code_display' = ErrRequestFailed
            [] last'.op = "on_error" -> code_display' = ErrTransport(last'.body)]_vars

====
